---------------------------- MODULE Spec2Model ----------------------------
(***************************************************************************)
(* Model of the file-backed authentication engine of the repository:       *)
(*   src/hash_login.py        register_user, login_user, lockout, sessions *)
(*   src/bcript_test/main.py  the registration flow with the policy gate   *)
(*                                                                         *)
(* A string is a sequence of one-character strings.  users.txt is a        *)
(* sequence of lines (the "\n" that ends each written line is the line     *)
(* boundary; no value read by input() contains one).  failed_attempts.json *)
(* and sessions.json are functions from usernames to records; a file that  *)
(* does not exist reads as the empty function, as the code's               *)
(* "failed_data = {}" / "session_data = {}" defaults make it.              *)
(***************************************************************************)
EXTENDS Integers, Sequences, FiniteSets, TLC

\* ---------------------------------------------------------------- bounds
\* Number of clock advances in a run.
MaxTicks == 2
\* Number of credential lines users.txt may hold (the header not counted).
MaxUsers == 2
\* Number of login calls in a run of Spec.
MaxLogins == 4
\* Number of login calls in a run of SpecReg and of SpecTrip.
MaxRegLogins == 1
\* Number of login calls in a run of SpecSess.
MaxSessLogins == 3
\* Longest password given to validate_password in SpecPolicy.
MaxPasswordLen == 6
\* Longest password given to check_password_strength in SpecPolicy.
MaxStrengthLen == 8
\* Longest username given to validate_username in SpecPolicy.
MaxUsernameLen == 4
\* Number of concurrent callers of register_user in SpecRace.
RegCallers == 2
\* Number of concurrent callers of track_failed_attempt in SpecFail.
FailCallers == 2
\* Number of concurrent callers of create_session in SpecIssue.
IssueCallers == 2
\* Number of concurrent callers of login_user in SpecLoginRace.
LoginCallers == 2
\* Number of lines of DATA/users.txt in SpecMigrate.
MaxFileLines == 3

\* ------------------------------------------------------ program constants
LOCKOUT_TIME == 300
\* "if count >= 3" in is_locked and "if attempts >= 3" in login_user
LOCK_THRESHOLD == 3
\* validate_username: "if len(username) < 3"
MIN_USERNAME_LEN == 3
\* validate_password: "if len(password) < 6"
MIN_PASSWORD_LEN == 6
\* check_password_strength: "if len(password) >= 8"
STRONG_LEN == 8

\* ------------------------------------------------------------- characters
Upper == {"A", "B"}
Lower == {"a", "b", "c", "d", "e", "f", "h", "i", "o", "r", "s", "t", "u", "v", "w", "x"}
Digit == {"1", "2"}
\* the class [@#$%^&+=!] of validate_password and check_password_strength
Special == {"@", "#", "$", "%", "^", "&", "+", "=", "!"}
\* what str.strip() removes
Whitespace == {" ", "\t", "\n"}

\* ---------------------------------------------------------------- strings
RECURSIVE LStrip(_)
LStrip(s) ==
    IF s # <<>> /\ Head(s) \in Whitespace THEN LStrip(Tail(s)) ELSE s

RECURSIVE RStrip(_)
RStrip(s) ==
    IF s # <<>> /\ s[Len(s)] \in Whitespace
    THEN RStrip(SubSeq(s, 1, Len(s) - 1))
    ELSE s

\* str.strip()
Strip(s) == LStrip(RStrip(s))

\* Index of the first "," of s at or after position i; 0 when there is none.
RECURSIVE FindComma(_, _)
FindComma(s, i) ==
    IF i > Len(s) THEN 0
    ELSE IF s[i] = "," THEN i
    ELSE FindComma(s, i + 1)

\* s.split(",", maxsplit): at most maxsplit cuts, the rest kept whole.
RECURSIVE SplitComma(_, _)
SplitComma(s, maxsplit) ==
    LET k == FindComma(s, 1)
    IN IF maxsplit = 0 \/ k = 0
       THEN <<s>>
       ELSE <<SubSeq(s, 1, k - 1)>> \o SplitComma(SubSeq(s, k + 1, Len(s)), maxsplit - 1)


\* ------------------------------------------------------------ input values
User1 == <<"u", "s", "e", "r", "1">>
UserA1 == <<"A", "_", "1">>
Ab == <<"a", "b">>
\* a username holding the field separator of users.txt
UserComma == <<"u", "s", "e", "r", "1", ",", "x">>
Abcdef1A == <<"a", "b", "c", "d", "e", "f", "1", "A", "!">>
Whatever1A == <<"w", "h", "a", "t", "e", "v", "e", "r", "1", "A", "!">>
Short == <<"s", "h", "o", "r", "t">>
RoleUser == <<"u", "s", "e", "r">>
RoleComma == <<"i", "t", ",", "2">>

\* What the user may type at a prompt: input() returns one line without its
\* line break, and every caller strips it before use.
TypedUsernames == {User1, UserComma, Ab \o <<" ">>}
TypedPasswords == {Abcdef1A, Short}
TypedRoles == {RoleUser, RoleComma}

\* The inputs of the round-trip runs (SpecTrip): two usernames and two
\* passwords that pass the policy.
TripUsernames == {User1, UserA1}
TripPasswords == {Abcdef1A, Whatever1A}

\* The values that reach register_user and login_user.
Usernames == {Strip(u) : u \in TypedUsernames \cup TripUsernames}
Passwords == {Strip(p) : p \in TypedPasswords \cup TripPasswords}

\* ---------------------------------------------------------------- hashing
\* bcrypt is a library: its hash is modelled as <<prefix, salt, digest>>, three
\* characters of the bcrypt alphabet (never "," or whitespace), the digest an
\* injective function of the password.
Salts == {"s1", "s2"}
\* the salts gensalt() draws in the runs explored
DrawnSalts == {"s1"}
PasswordList == <<Abcdef1A, Whatever1A, Short>>
DigestList == <<"d1", "d2", "d3">>

Digest(password) ==
    DigestList[CHOOSE i \in 1..Len(PasswordList) : PasswordList[i] = password]

\* bcrypt.hashpw(password, salt)
hashpw(password, salt) == <<"$2b$", salt, Digest(password)>>

\* hash_password, for the salt bcrypt.gensalt() drew
hash_password(plain_text_password, salt) == hashpw(plain_text_password, salt)

\* Whether bcrypt can parse the stored value; when it cannot, checkpw raises
\* ValueError ("Invalid salt").
IsBcryptHash(h) ==
    /\ Len(h) = 3
    /\ h[1] = "$2b$"
    /\ h[2] \in Salts
    /\ \E i \in 1..Len(DigestList) : h[3] = DigestList[i]

\* Faulty variant of verify_password: only the salt is compared.
verify_password_salt_only(plain_text_password, hashed_password) ==
    hashpw(plain_text_password, hashed_password[2])[2] = hashed_password[2]

\* verify_password, for a stored value bcrypt can parse: checkpw hashes the
\* password with the stored salt and compares.
verify_password(plain_text_password, hashed_password) ==
    hashpw(plain_text_password, hashed_password[2]) = hashed_password

\* ------------------------------------------------------------- users.txt
\* The header register_user writes when it creates the file.
Header == <<"username", ",", "password_hash", ",", "role">>

\* f"{username},{hashed_password},{role}\n"
FormatLine(username, hashed_password, role) ==
    username \o <<",">> \o hashed_password \o <<",">> \o role

\* Faulty variant of ParseLine: split(",") without the maxsplit argument.
ParseLine_split_all(line) == SplitComma(Strip(line), Len(line))

\* line.strip().split(",", 2)
ParseLine(line) == SplitComma(Strip(line), 2)

\* "user, stored_hash, role = ..." raises ValueError unless there are three parts.
Unpacks(line) == Len(ParseLine(line)) = 3

\* The loop "for line in f" of user_exists and login_user over the lines after
\* the header, from line i on: the index of the first line whose user field is
\* username, 0 when the loop ends without one, -1 when a line does not unpack
\* before one is found.
RECURSIVE FindUser(_, _, _)
FindUser(file, i, username) ==
    IF i > Len(file) THEN 0
    ELSE IF ~Unpacks(file[i]) THEN -1
    ELSE IF ParseLine(file[i])[1] = username THEN i
    ELSE FindUser(file, i + 1, username)

\* user_exists: False when the file does not exist (the empty file here).
\* (Every line register_user writes unpacks, so the ValueError case is dead.)
user_exists(file, username) ==
    file # <<>> /\ FindUser(file, 2, username) > 0


\* ------------------------------------------------------------ validators
\* re.match("^[A-Za-z0-9_]+$", username): "$" matches at the end of the string
\* and also just before a line break that ends the string.
UsernameCharsOk(username) ==
    LET body == IF username # <<>> /\ username[Len(username)] = "\n"
                THEN SubSeq(username, 1, Len(username) - 1)
                ELSE username
    IN /\ body # <<>>
       /\ \A i \in 1..Len(body) : body[i] \in Upper \cup Lower \cup Digit \cup {"_"}

\* re.search("[...]", password)
HasChar(password, class) == \E i \in 1..Len(password) : password[i] \in class

\* validate_username: "" when valid, else the rule that failed
validate_username(username) ==
    IF username = <<>> THEN "username:empty"
    ELSE IF Len(username) < MIN_USERNAME_LEN THEN "username:length"
    ELSE IF ~UsernameCharsOk(username) THEN "username:charset"
    ELSE ""

\* Faulty variant of validate_password: the digit rule is tested before the
\* lowercase rule.
validate_password_digit_first(password) ==
    IF Len(password) < MIN_PASSWORD_LEN THEN "password:length"
    ELSE IF ~HasChar(password, Upper) THEN "password:uppercase"
    ELSE IF ~HasChar(password, Digit) THEN "password:digit"
    ELSE IF ~HasChar(password, Lower) THEN "password:lowercase"
    ELSE IF ~HasChar(password, Special) THEN "password:special"
    ELSE ""

\* validate_password: "" when valid, else the first rule that failed
validate_password(password) ==
    IF Len(password) < MIN_PASSWORD_LEN THEN "password:length"
    ELSE IF ~HasChar(password, Upper) THEN "password:uppercase"
    ELSE IF ~HasChar(password, Lower) THEN "password:lowercase"
    ELSE IF ~HasChar(password, Digit) THEN "password:digit"
    ELSE IF ~HasChar(password, Special) THEN "password:special"
    ELSE ""

\* The score of check_password_strength with length threshold n.
StrengthScore(password, n) ==
    (IF Len(password) >= n THEN 1 ELSE 0)
    + (IF HasChar(password, Upper) THEN 1 ELSE 0)
    + (IF HasChar(password, Lower) THEN 1 ELSE 0)
    + (IF HasChar(password, Digit) THEN 1 ELSE 0)
    + (IF HasChar(password, Special) THEN 1 ELSE 0)

\* The label check_password_strength returns for a score.
StrengthLabel(score) ==
    IF score <= 2 THEN "Weak" ELSE IF score <= 4 THEN "Medium" ELSE "Strong"

\* Faulty variant of check_password_strength: the length threshold is the one
\* of validate_password.
check_password_strength_shared_length(password) ==
    StrengthLabel(StrengthScore(password, MIN_PASSWORD_LEN))

\* check_password_strength
check_password_strength(password) ==
    StrengthLabel(StrengthScore(password, STRONG_LEN))

\* ------------------------------------------------------------------ state
VARIABLES
    usersFile,   \* users.txt: <<>> when absent, else <<Header, line, ...>>
    failed,      \* failed_attempts.json: username -> [count, last_time]
    sessions,    \* sessions.json: username -> [token, timestamp]
    now,         \* time.time(), in seconds
    last,        \* the last call made and how it ended: what it printed, and for a
                 \* call that got past the checks the password it was given
    streak,      \* per username: wrong-password logins in a row, each less than
                 \* LOCKOUT_TIME after the one before (history, not program state)
    logins,      \* number of login calls made
    creds,       \* per username that register_user accepted: the password and role
                 \* of the first accepted call (history, not program state)
    procs,       \* the calls in progress of the concurrent runs: per caller its
                 \* position, arguments and local variables
    usersTable   \* the users table of the database of test.py: its rows in the
                 \* order of their ids, each [username, password_hash, role]

vars == <<usersFile, failed, sessions, now, last, streak, logins, creds, procs,
          usersTable>>

Tokens == {"t1", "t2"}
TickSteps == {LOCKOUT_TIME - 1, LOCKOUT_TIME, LOCKOUT_TIME + 1}
TimeLimit == MaxTicks * (LOCKOUT_TIME + 1)

NoCall ==
    [op |-> "none", user |-> <<>>, password |-> <<>>, role |-> <<>>,
     outcome |-> "", detail |-> "", attempts |-> 0]

Call(op, user, password, role, outcome, detail, attempts) ==
    [op |-> op, user |-> user, password |-> password, role |-> role,
     outcome |-> outcome, detail |-> detail, attempts |-> attempts]

\* {} as json.load gives it, and what a missing JSON file stands for.
EmptyMap == [k \in {} |-> 0]

Init ==
    /\ usersFile = <<>>
    /\ failed = EmptyMap
    /\ sessions = EmptyMap
    /\ now = 0
    /\ last = NoCall
    /\ streak = [u \in Usernames |-> 0]
    /\ logins = 0
    /\ usersTable = <<>>
    /\ creds = EmptyMap
    /\ procs = <<>>

\* A function with key k set to v (a dict assignment d[k] = v).
Put(d, k, v) == [x \in DOMAIN d \cup {k} |-> IF x = k THEN v ELSE d[x]]


\* ---------------------------------------------------------------- lockout
\* track_failed_attempt: the new content of failed_attempts.json at time t
track_failed_attempt(failed_data, username, t) ==
    IF username \notin DOMAIN failed_data
    THEN Put(failed_data, username, [count |-> 1, last_time |-> t])
    ELSE IF t - failed_data[username].last_time > LOCKOUT_TIME
    THEN Put(failed_data, username, [count |-> 1, last_time |-> t])
    ELSE Put(failed_data, username,
             [count |-> failed_data[username].count + 1, last_time |-> t])

\* Faulty variant of is_locked: the threshold test is "count > 3".
is_locked_above_threshold(failed_data, username, t) ==
    /\ username \in DOMAIN failed_data
    /\ failed_data[username].count > LOCK_THRESHOLD
    /\ t - failed_data[username].last_time < LOCKOUT_TIME

\* Faulty variant of is_locked: the lock never expires.
is_locked_no_expiry(failed_data, username, t) ==
    /\ username \in DOMAIN failed_data
    /\ failed_data[username].count >= LOCK_THRESHOLD

\* Faulty variant of is_locked: the lock still holds at exactly LOCKOUT_TIME.
is_locked_inclusive_window(failed_data, username, t) ==
    /\ username \in DOMAIN failed_data
    /\ failed_data[username].count >= LOCK_THRESHOLD
    /\ t - failed_data[username].last_time <= LOCKOUT_TIME

\* is_locked at time t
is_locked(failed_data, username, t) ==
    /\ username \in DOMAIN failed_data
    /\ failed_data[username].count >= LOCK_THRESHOLD
    /\ t - failed_data[username].last_time < LOCKOUT_TIME

\* Faulty variant of create_session: the stored sessions are not loaded first.
create_session_fresh_store(session_data, username, token, t) ==
    Put(EmptyMap, username, [token |-> token, timestamp |-> t])

\* create_session: the new content of sessions.json
create_session(session_data, username, token, t) ==
    Put(session_data, username, [token |-> token, timestamp |-> t])

\* --------------------------------------------------------------- register
\* register_user's writes: the header when the file is new, then the record
AppendUser(file, username, hashed_password, role) ==
    (IF file = <<>> THEN <<Header>> ELSE file)
        \o <<FormatLine(username, hashed_password, role)>>

\* Room for one more credential line within the model's bound.
HasRoom(file) == Len(file) <= MaxUsers

\* register_user(username, password, role), with salt the salt gensalt() draws
register_user(flow, username, password, role, salt) ==
    IF user_exists(usersFile, username)
    THEN /\ last' = Call("register", username, <<>>, <<>>, "AlreadyExists", "", 0)
         /\ UNCHANGED <<usersFile, creds>>
    ELSE /\ HasRoom(usersFile)
         /\ usersFile' = AppendUser(usersFile, username, hash_password(password, salt), role)
         /\ last' = Call("register", username, password, role, "Registered", flow, 0)
         /\ creds' = IF username \in DOMAIN creds THEN creds
                     ELSE Put(creds, username, [password |-> password, role |-> role])

\* Choice 1 of main() in hash_login.py: the three inputs are stripped and
\* passed to register_user as they are.
RegisterPlainOver(TU, TP, TR) ==
    \E tu \in TU, tp \in TP, tr \in TR, salt \in DrawnSalts :
        /\ register_user("hash_login", Strip(tu), Strip(tp), Strip(tr), salt)
        /\ UNCHANGED <<failed, sessions, now, streak, logins, procs, usersTable>>

\* Choice 1 of main() in bcript_test/main.py: each input is validated as soon
\* as it is read, and the loop continues at the first failure.
RegisterCheckedOver(TU, TP, TR) ==
    \E tu \in TU, tp \in TP, tc \in TP, tr \in TR, salt \in DrawnSalts :
        LET username == Strip(tu)
            password == Strip(tp)
        IN /\ IF validate_username(username) # ""
              THEN /\ last' = Call("register", <<>>, <<>>, <<>>, "ValidationError",
                                   validate_username(username), 0)
                   /\ UNCHANGED <<usersFile, creds>>
              ELSE IF validate_password(password) # ""
              THEN /\ last' = Call("register", <<>>, <<>>, <<>>, "ValidationError",
                                   validate_password(password), 0)
                   /\ UNCHANGED <<usersFile, creds>>
              ELSE IF password # Strip(tc)
              THEN /\ last' = Call("register", <<>>, <<>>, <<>>, "ValidationError",
                                   "password:confirm", 0)
                   /\ UNCHANGED <<usersFile, creds>>
              ELSE register_user("bcript_test", username, password, Strip(tr), salt)
           /\ UNCHANGED <<failed, sessions, now, streak, logins, procs, usersTable>>


\* ------------------------------------------------------------------ login
\* The record login_user's loop stops at: the parts of the first line whose
\* user field is username (only used when there is one).
Lookup(file, username) == ParseLine(file[FindUser(file, 2, username)])

\* Faulty variant of LoginOutcome: a username without a record is handled as a wrong
\* password.
LoginOutcome_unknown_counts(file, failed_data, username, password, t) ==
    IF is_locked(failed_data, username, t) THEN "AccountLocked"
    ELSE IF file = <<>> THEN "UserNotFound"
    ELSE IF FindUser(file, 2, username) = 0 THEN "InvalidCredentials"
    ELSE IF FindUser(file, 2, username) < 0 THEN "ValueError"
    ELSE IF ~IsBcryptHash(Lookup(file, username)[2]) THEN "ValueError"
    ELSE IF verify_password(password, Lookup(file, username)[2]) THEN "Authenticated"
    ELSE "InvalidCredentials"

\* Faulty variant of LoginOutcome: the password is verified before the lock is
\* looked at, so the correct password gets through a locked account.
LoginOutcome_verify_first(file, failed_data, username, password, t) ==
    IF /\ file # <<>>
       /\ FindUser(file, 2, username) > 0
       /\ IsBcryptHash(Lookup(file, username)[2])
       /\ verify_password(password, Lookup(file, username)[2])
    THEN "Authenticated"
    ELSE IF is_locked(failed_data, username, t) THEN "AccountLocked"
    ELSE IF file = <<>> THEN "UserNotFound"
    ELSE IF FindUser(file, 2, username) = 0 THEN "UserNotFound"
    ELSE IF FindUser(file, 2, username) < 0 THEN "ValueError"
    ELSE IF ~IsBcryptHash(Lookup(file, username)[2]) THEN "ValueError"
    ELSE "InvalidCredentials"

\* Faulty variant of LoginOutcome: a user that is found is let in whatever the
\* password.
LoginOutcome_any_password(file, failed_data, username, password, t) ==
    IF is_locked(failed_data, username, t) THEN "AccountLocked"
    ELSE IF file = <<>> THEN "UserNotFound"
    ELSE IF FindUser(file, 2, username) = 0 THEN "UserNotFound"
    ELSE IF FindUser(file, 2, username) < 0 THEN "ValueError"
    ELSE IF ~IsBcryptHash(Lookup(file, username)[2]) THEN "ValueError"
    ELSE "Authenticated"

\* How login_user(username, password) ends at time t.  Both "No users
\* registered yet." (no users.txt) and "Username not found." are UserNotFound.
LoginOutcome(file, failed_data, username, password, t) ==
    IF is_locked(failed_data, username, t) THEN "AccountLocked"
    ELSE IF file = <<>> THEN "UserNotFound"
    ELSE IF FindUser(file, 2, username) = 0 THEN "UserNotFound"
    ELSE IF FindUser(file, 2, username) < 0 THEN "ValueError"
    ELSE IF ~IsBcryptHash(Lookup(file, username)[2]) THEN "ValueError"
    ELSE IF verify_password(password, Lookup(file, username)[2]) THEN "Authenticated"
    ELSE "InvalidCredentials"

\* The history variable: a wrong password extends the run of failures when it
\* comes less than LOCKOUT_TIME after the one before, and starts a new run
\* otherwise; a refused (locked) call leaves the run as it is, and any other end
\* of a login call for the user ends it.
NextStreak(username, outcome) ==
    IF outcome = "AccountLocked" THEN streak[username]
    ELSE IF outcome # "InvalidCredentials" THEN 0
    ELSE IF /\ streak[username] > 0
            /\ username \in DOMAIN failed
            /\ now - failed[username].last_time < LOCKOUT_TIME
    THEN streak[username] + 1
    ELSE 1

\* Faulty variant of login_user: a call refused as locked stamps the lockout
\* entry with the time of the call.
login_user_refresh_when_locked(username, password, token) ==
    LET outcome == LoginOutcome(usersFile, failed, username, password, now)
    IN /\ outcome = "Authenticated" =>
            /\ sessions' = create_session(sessions, username, token, now)
            /\ UNCHANGED failed
            /\ last' = Call("login", username, password, Lookup(usersFile, username)[3],
                            outcome, "", 0)
       /\ outcome = "InvalidCredentials" =>
            /\ failed' = track_failed_attempt(failed, username, now)
            /\ UNCHANGED sessions
            /\ last' = Call("login", username, password, <<>>, outcome, "",
                            failed'[username].count)
       /\ outcome = "AccountLocked" =>
            /\ failed' = Put(failed, username,
                             [count |-> failed[username].count, last_time |-> now])
            /\ UNCHANGED sessions
            /\ last' = Call("login", username, password, <<>>, outcome, "", 0)
       /\ outcome \notin {"Authenticated", "InvalidCredentials", "AccountLocked"} =>
            /\ UNCHANGED <<failed, sessions>>
            /\ last' = Call("login", username, password, <<>>, outcome, "", 0)
       /\ streak' = [streak EXCEPT ![username] = NextStreak(username, outcome)]
       /\ UNCHANGED <<usersFile, now, creds, procs, usersTable>>

\* login_user(username, password) as choice 2 of main() in hash_login.py calls
\* it, with token the value secrets.token_hex(16) returns.
login_user(username, password, token) ==
    LET outcome == LoginOutcome(usersFile, failed, username, password, now)
    IN /\ outcome = "Authenticated" =>
            /\ sessions' = create_session(sessions, username, token, now)
            /\ UNCHANGED failed
            /\ last' = Call("login", username, password, Lookup(usersFile, username)[3],
                            outcome, "", 0)
       /\ outcome = "InvalidCredentials" =>
            /\ failed' = track_failed_attempt(failed, username, now)
            /\ UNCHANGED sessions
            /\ last' = Call("login", username, password, <<>>, outcome, "",
                            failed'[username].count)
       /\ outcome \notin {"Authenticated", "InvalidCredentials"} =>
            /\ UNCHANGED <<failed, sessions>>
            /\ last' = Call("login", username, password, <<>>, outcome, "", 0)
       /\ streak' = [streak EXCEPT ![username] = NextStreak(username, outcome)]
       /\ UNCHANGED <<usersFile, now, creds, procs, usersTable>>

LoginOver(TU, TP, TK, cap) ==
    \E tu \in TU, tp \in TP :
        /\ logins < cap
        /\ logins' = logins + 1
        /\ \E token \in (IF LoginOutcome(usersFile, failed, Strip(tu), Strip(tp), now)
                            = "Authenticated" THEN TK ELSE {"t1"}) :
               login_user(Strip(tu), Strip(tp), token)

\* Time passes between two calls.
Tick ==
    \E d \in TickSteps :
        /\ now + d <= TimeLimit
        /\ now' = now + d
        /\ UNCHANGED <<usersFile, failed, sessions, last, streak, logins, creds, procs, usersTable>>

\* ------------------------------------------------------- specifications
\* Spec: the lockout and session behaviour over time of one user who
\* registers, beside a username that never does.
LockUsernames == {User1}
LockRoles == {RoleUser}

RegisterPlain == RegisterPlainOver(LockUsernames, {Abcdef1A}, LockRoles)
RegisterChecked == RegisterCheckedOver(LockUsernames, {Abcdef1A}, LockRoles)
Login == LoginOver(LockUsernames \cup {Ab \o <<" ">>}, TypedPasswords, {"t1"}, MaxLogins)

Next == RegisterPlain \/ RegisterChecked \/ Login \/ Tick

Spec == Init /\ [][Next]_vars

\* SpecReg: registration with every typed username, password and role, each
\* followed by at most MaxRegLogins login calls.
RegPlain == RegisterPlainOver(TypedUsernames, TypedPasswords, TypedRoles)
RegChecked == RegisterCheckedOver(TypedUsernames, TypedPasswords, TypedRoles)
RegLogin == LoginOver(TypedUsernames, TypedPasswords, Tokens, MaxRegLogins)

NextReg == RegPlain \/ RegChecked \/ RegLogin

SpecReg == Init /\ [][NextReg]_vars

\* SpecTrip: registration and login of usernames and passwords that pass the
\* policy, with every role.
TripPlain == RegisterPlainOver(TripUsernames, TripPasswords, TypedRoles)
TripChecked == RegisterCheckedOver(TripUsernames, TripPasswords, TypedRoles)
TripLogin == LoginOver(TripUsernames, TripPasswords, {"t1"}, MaxRegLogins)

NextTrip == TripPlain \/ TripChecked \/ TripLogin

SpecTrip == Init /\ [][NextTrip]_vars


\* --------------------------------------------- concurrent register_user
\* SpecRace: RegCallers callers run register_user for the same username, not
\* yet registered, at the same time.  A caller's steps are the file operations
\* of register_user: the read of user_exists (line 74), the os.path.exists
\* test (line 80), the open(..., "w") that writes the header (lines 81-82) and
\* the append (lines 84-85).
RaceUser == User1

\* users.txt with one other user registered.
OneUserFile == AppendUser(<<>>, UserA1, hash_password(Abcdef1A, "s1"), RoleUser)

InitRace ==
    /\ usersFile \in {<<>>, OneUserFile}
    /\ failed = EmptyMap
    /\ sessions = EmptyMap
    /\ now = 0
    /\ last = NoCall
    /\ streak = [u \in Usernames |-> 0]
    /\ logins = 0
    /\ usersTable = <<>>
    /\ creds = IF usersFile = <<>> THEN EmptyMap
               ELSE Put(EmptyMap, UserA1, [password |-> Abcdef1A, role |-> RoleUser])
    /\ procs \in [1..RegCallers ->
                    {[pc |-> "check", user |-> RaceUser, password |-> pw,
                      role |-> RoleUser, result |-> ""] : pw \in TripPasswords}]

\* line 74: user_exists reads the file; a caller that finds the name returns.
RegCheck(i) ==
    /\ procs[i].pc = "check"
    /\ procs' = [procs EXCEPT ![i].pc =
                    IF user_exists(usersFile, procs[i].user) THEN "done" ELSE "probe",
                 ![i].result =
                    IF user_exists(usersFile, procs[i].user) THEN "AlreadyExists" ELSE ""]
    /\ UNCHANGED <<usersFile, failed, sessions, now, last, streak, logins, creds, usersTable>>

\* line 80: "if not os.path.exists(USER_DATA_FILE)"
RegProbe(i) ==
    /\ procs[i].pc = "probe"
    /\ procs' = [procs EXCEPT ![i].pc = IF usersFile = <<>> THEN "header" ELSE "append"]
    /\ UNCHANGED <<usersFile, failed, sessions, now, last, streak, logins, creds, usersTable>>

\* lines 81-82: open(..., "w") empties the file and the header is written.
RegHeader(i) ==
    /\ procs[i].pc = "header"
    /\ usersFile' = <<Header>>
    /\ procs' = [procs EXCEPT ![i].pc = "append"]
    /\ UNCHANGED <<failed, sessions, now, last, streak, logins, creds, usersTable>>

\* lines 84-89: the record is appended and the call returns True.
RegAppend(i) ==
    /\ procs[i].pc = "append"
    /\ usersFile' = usersFile \o
          <<FormatLine(procs[i].user, hash_password(procs[i].password, "s1"), procs[i].role)>>
    /\ procs' = [procs EXCEPT ![i].pc = "done", ![i].result = "Registered"]
    /\ UNCHANGED <<failed, sessions, now, last, streak, logins, creds, usersTable>>

RaceCheck == \E i \in 1..RegCallers : RegCheck(i)
RaceProbe == \E i \in 1..RegCallers : RegProbe(i)
RaceHeader == \E i \in 1..RegCallers : RegHeader(i)
RaceAppend == \E i \in 1..RegCallers : RegAppend(i)

NextRace == RaceCheck \/ RaceProbe \/ RaceHeader \/ RaceAppend

SpecRace == InitRace /\ [][NextRace]_vars

\* ---------------------------------------- concurrent track_failed_attempt
\* SpecFail: FailCallers callers, each in the wrong-password branch of
\* login_user for the same registered user, run track_failed_attempt at the
\* same time, seconds apart at most.  A caller's steps are the load of
\* failed_attempts.json (lines 110-112), the update of its own copy at the
\* time it reads the clock (lines 114-122) and the dump of the copy (124-125).
FailUser == User1

UserFile == AppendUser(<<>>, FailUser, hash_password(Abcdef1A, "s1"), RoleUser)

InitFail ==
    /\ usersFile = UserFile
    /\ failed \in {EmptyMap,
                   Put(EmptyMap, FailUser, [count |-> 1, last_time |-> 0])}
    /\ sessions = EmptyMap
    /\ now = 0
    /\ last = NoCall
    /\ streak = [u \in Usernames |-> 0]
    /\ logins = 0
    /\ usersTable = <<>>
    /\ creds = Put(EmptyMap, FailUser, [password |-> Abcdef1A, role |-> RoleUser])
    /\ procs = [i \in 1..FailCallers |->
                  [pc |-> "load", user |-> FailUser, data |-> EmptyMap,
                   start |-> IF FailUser \in DOMAIN failed THEN failed[FailUser].count ELSE 0,
                   result |-> 0]]

\* lines 109-112: failed_data = json.load(f), or {} without the file
TrackLoad(i) ==
    /\ procs[i].pc = "load"
    /\ procs' = [procs EXCEPT ![i].pc = "update", ![i].data = failed]
    /\ UNCHANGED <<usersFile, failed, sessions, now, last, streak, logins, creds, usersTable>>

\* lines 114-122: the caller's copy is updated at the time the clock shows
TrackUpdate(i) ==
    /\ procs[i].pc = "update"
    /\ procs' = [procs EXCEPT ![i].pc = "store",
                              ![i].data = track_failed_attempt(procs[i].data, procs[i].user, now)]
    /\ UNCHANGED <<usersFile, failed, sessions, now, last, streak, logins, creds, usersTable>>

\* lines 124-126: the whole copy replaces the file; the count is returned
TrackStore(i) ==
    /\ procs[i].pc = "store"
    /\ failed' = procs[i].data
    /\ procs' = [procs EXCEPT ![i].pc = "done",
                              ![i].result = procs[i].data[procs[i].user].count]
    /\ UNCHANGED <<usersFile, sessions, now, last, streak, logins, creds, usersTable>>

FailLoad == \E i \in 1..FailCallers : TrackLoad(i)
FailUpdate == \E i \in 1..FailCallers : TrackUpdate(i)
FailStore == \E i \in 1..FailCallers : TrackStore(i)

\* A second passes between two steps (at most MaxTicks of them in a run).
FailTick ==
    /\ now < MaxTicks
    /\ now' = now + 1
    /\ UNCHANGED <<usersFile, failed, sessions, last, streak, logins, creds, procs, usersTable>>

NextFail == FailLoad \/ FailUpdate \/ FailStore \/ FailTick

SpecFail == InitFail /\ [][NextFail]_vars

\* ------------------------------------------------- sessions of two users
\* SpecSess: two registered users log in, with the right and with a wrong
\* password, at most MaxSessLogins times in all, seconds apart.
SessUsernames == {User1, UserA1}

TwoUserFile ==
    AppendUser(AppendUser(<<>>, User1, hash_password(Abcdef1A, "s1"), RoleUser),
               UserA1, hash_password(Whatever1A, "s1"), RoleComma)

InitSess ==
    /\ usersFile = TwoUserFile
    /\ failed = EmptyMap
    /\ sessions = EmptyMap
    /\ now = 0
    /\ last = NoCall
    /\ streak = [u \in Usernames |-> 0]
    /\ logins = 0
    /\ usersTable = <<>>
    /\ creds = Put(Put(EmptyMap, User1, [password |-> Abcdef1A, role |-> RoleUser]),
                   UserA1, [password |-> Whatever1A, role |-> RoleComma])
    /\ procs = <<>>

SessLogin == LoginOver(SessUsernames, TripPasswords, Tokens, MaxSessLogins)

NextSess == SessLogin \/ FailTick

SpecSess == InitSess /\ [][NextSess]_vars

\* ------------------------------------------------- the policy functions
\* SpecPolicy: one call of validate_password, check_password_strength or
\* validate_username on any string over a small alphabet, up to a length that
\* passes the function's length threshold.
Strings(alphabet, n) == UNION {[1..k -> alphabet] : k \in 0..n}

\* One character of each class of validate_password, and one of no class.
PasswordChars == {"A", "a", "1", "!", "_"}
\* One character of each class of check_password_strength.
StrengthChars == {"A", "a", "1", "!"}
\* Characters of [A-Za-z0-9_], a comma, a blank and a line break.
UsernameChars == {"a", "B", "1", "_", ",", " ", "\n"}

ValidatePassword ==
    /\ last = NoCall
    /\ \E s \in Strings(PasswordChars, MaxPasswordLen) :
           /\ last' = Call("validate_password", <<>>, s, <<>>,
                           IF validate_password(s) = "" THEN "Ok" ELSE "Rejected",
                           validate_password(s), 0)
           /\ UNCHANGED <<usersFile, failed, sessions, now, streak, logins, creds, procs, usersTable>>

CheckStrength ==
    /\ last = NoCall
    /\ \E s \in Strings(StrengthChars, MaxStrengthLen) :
           /\ last' = Call("check_password_strength", <<>>, s, <<>>,
                           check_password_strength(s), "", 0)
           /\ UNCHANGED <<usersFile, failed, sessions, now, streak, logins, creds, procs, usersTable>>

ValidateUsername ==
    /\ last = NoCall
    /\ \E s \in Strings(UsernameChars, MaxUsernameLen) :
           /\ last' = Call("validate_username", s, <<>>, <<>>,
                           IF validate_username(s) = "" THEN "Ok" ELSE "Rejected",
                           validate_username(s), 0)
           /\ UNCHANGED <<usersFile, failed, sessions, now, streak, logins, creds, procs, usersTable>>

NextPolicy == ValidatePassword \/ CheckStrength \/ ValidateUsername

SpecPolicy == Init /\ [][NextPolicy]_vars

\* ------------------------------------------------ concurrent create_session
\* SpecIssue: IssueCallers callers, each in the success branch of login_user
\* for a user of its own, run create_session at the same time, seconds apart
\* at most.  A caller's steps are the load of sessions.json (lines 96-99), the
\* assignment to its copy at the time the clock shows (line 100) and the dump
\* of the copy (lines 101-102); its token was drawn before (line 95).
IssueNames == <<User1, UserA1, UserComma>>

\* sessions.json with the session of a user who logged in earlier.
OneSession == Put(EmptyMap, Ab, [token |-> "t1", timestamp |-> 0])

\* users.txt with the callers' users and that user.
ThreeUserFile == AppendUser(TwoUserFile, Ab, hash_password(Abcdef1A, "s1"), RoleUser)

InitIssue ==
    /\ usersFile = ThreeUserFile
    /\ failed = EmptyMap
    /\ sessions \in {EmptyMap, OneSession}
    /\ now = 0
    /\ last = NoCall
    /\ streak = [u \in Usernames |-> 0]
    /\ logins = 0
    /\ usersTable = <<>>
    /\ creds = Put(Put(Put(EmptyMap, User1, [password |-> Abcdef1A, role |-> RoleUser]),
                       UserA1, [password |-> Whatever1A, role |-> RoleComma]),
                   Ab, [password |-> Abcdef1A, role |-> RoleUser])
    /\ \E tokens \in [1..IssueCallers -> Tokens] :
          procs = [i \in 1..IssueCallers |->
                     [pc |-> "load", user |-> IssueNames[i], token |-> tokens[i],
                      data |-> EmptyMap, start |-> sessions]]

\* lines 96-99: session_data = json.load(f), or {} without the file
IssueLoad(i) ==
    /\ procs[i].pc = "load"
    /\ procs' = [procs EXCEPT ![i].pc = "put", ![i].data = sessions]
    /\ UNCHANGED <<usersFile, failed, sessions, now, last, streak, logins, creds, usersTable>>

\* line 100: session_data[username] = {"token": token, "timestamp": time.time()}
IssuePut(i) ==
    /\ procs[i].pc = "put"
    /\ procs' = [procs EXCEPT ![i].pc = "store",
                              ![i].data = create_session(procs[i].data, procs[i].user,
                                                         procs[i].token, now)]
    /\ UNCHANGED <<usersFile, failed, sessions, now, last, streak, logins, creds, usersTable>>

\* lines 101-103: the whole copy replaces the file
IssueStore(i) ==
    /\ procs[i].pc = "store"
    /\ sessions' = procs[i].data
    /\ procs' = [procs EXCEPT ![i].pc = "done"]
    /\ UNCHANGED <<usersFile, failed, now, last, streak, logins, creds, usersTable>>

SessLoad == \E i \in 1..IssueCallers : IssueLoad(i)
SessPut == \E i \in 1..IssueCallers : IssuePut(i)
SessStore == \E i \in 1..IssueCallers : IssueStore(i)

NextIssue == SessLoad \/ SessPut \/ SessStore \/ FailTick

SpecIssue == InitIssue /\ [][NextIssue]_vars

\* --------------------------------------------------- concurrent login_user
\* SpecLoginRace: LoginCallers callers run login_user for the same registered
\* user at the same time, seconds apart at most, each with the right or a
\* wrong password.  A caller's steps are the lock check (line 147), the lookup
\* and password check (lines 155-160), and then either create_session (line
\* 162, taken as one step here; its own steps are those of SpecIssue) or the
\* three steps of track_failed_attempt (line 165).  A caller notes whether the
\* stored lockout entry was locked at the moment it checked the password.
InitLoginRace ==
    /\ usersFile = UserFile
    /\ failed \in {EmptyMap,
                   Put(EmptyMap, FailUser, [count |-> 2, last_time |-> 0])}
    /\ sessions = EmptyMap
    /\ now = 0
    /\ last = NoCall
    /\ streak = [u \in Usernames |-> 0]
    /\ logins = 0
    /\ usersTable = <<>>
    /\ creds = Put(EmptyMap, FailUser, [password |-> Abcdef1A, role |-> RoleUser])
    /\ \E passwords \in [1..LoginCallers -> TypedPasswords] :
          procs = [i \in 1..LoginCallers |->
                     [pc |-> "lock", user |-> FailUser, password |-> Strip(passwords[i]),
                      data |-> EmptyMap,
                      start |-> IF FailUser \in DOMAIN failed
                                THEN failed[FailUser].count ELSE 0,
                      result |-> 0, outcome |-> "", verifiedLocked |-> FALSE]]

\* lines 147-149: "if is_locked(username): ... return False"
LoginLock(i) ==
    /\ procs[i].pc = "lock"
    /\ procs' = IF is_locked(failed, procs[i].user, now)
                THEN [procs EXCEPT ![i].pc = "done", ![i].outcome = "AccountLocked"]
                ELSE [procs EXCEPT ![i].pc = "verify"]
    /\ UNCHANGED <<usersFile, failed, sessions, now, last, streak, logins, creds, usersTable>>

\* lines 155-160: the user's line is found and verify_password is called
LoginVerify(i) ==
    /\ procs[i].pc = "verify"
    /\ procs' = [procs EXCEPT
          ![i].verifiedLocked = is_locked(failed, procs[i].user, now),
          ![i].pc = IF verify_password(procs[i].password,
                                       Lookup(usersFile, procs[i].user)[2])
                    THEN "issue" ELSE "load",
          ![i].outcome = IF verify_password(procs[i].password,
                                            Lookup(usersFile, procs[i].user)[2])
                         THEN "Authenticated" ELSE "InvalidCredentials"]
    /\ UNCHANGED <<usersFile, failed, sessions, now, last, streak, logins, creds, usersTable>>

\* lines 161-163: create_session(username), return True
LoginIssue(i) ==
    /\ procs[i].pc = "issue"
    /\ \E token \in Tokens :
          sessions' = create_session(sessions, procs[i].user, token, now)
    /\ procs' = [procs EXCEPT ![i].pc = "done"]
    /\ UNCHANGED <<usersFile, failed, now, last, streak, logins, creds, usersTable>>

RaceLock == \E i \in 1..LoginCallers : LoginLock(i)
RaceVerify == \E i \in 1..LoginCallers : LoginVerify(i)
RaceIssue == \E i \in 1..LoginCallers : LoginIssue(i)
RaceTrackLoad == \E i \in 1..LoginCallers : TrackLoad(i)
RaceTrackUpdate == \E i \in 1..LoginCallers : TrackUpdate(i)
RaceTrackStore == \E i \in 1..LoginCallers : TrackStore(i)

NextLoginRace ==
    \/ RaceLock \/ RaceVerify \/ RaceIssue
    \/ RaceTrackLoad \/ RaceTrackUpdate \/ RaceTrackStore
    \/ FailTick

SpecLoginRace == InitLoginRace /\ [][NextLoginRace]_vars

\* ------------------------------------------------------------ migrate_users
\* str.lower(), for the letters of the model
ToLower(s) ==
    [i \in 1..Len(s) |-> IF s[i] = "A" THEN "a" ELSE IF s[i] = "B" THEN "b" ELSE s[i]]

\* first.lower().startswith("username"); the header line is kept as words
\* (see Header), any other line as characters.
StartsWithUsername(s) ==
    \/ s # <<>> /\ s[1] = "username"
    \/ /\ Len(s) >= 8
       /\ SubSeq(ToLower(s), 1, 8) = <<"u", "s", "e", "r", "n", "a", "m", "e">>

\* [p.strip() for p in line.split(",")]
MigrateParts(line) ==
    LET parts == SplitComma(line, Len(line))
    IN [i \in 1..Len(parts) |-> Strip(parts[i])]

\* role = parts[2] if len(parts) >= 3 else "user"
DefaultRole == <<"u", "s", "e", "r">>

\* INSERT OR IGNORE INTO users ...: username is UNIQUE, so a row whose
\* username is in the table is dropped.
InsertOrIgnore(table, row) ==
    IF \E i \in DOMAIN table : table[i].username = row.username
    THEN table
    ELSE Append(table, row)

\* The while loop of migrate_users from line i of the file on: it ends at the
\* end of the file and at the first line that is empty once stripped.
RECURSIVE MigrateLoop(_, _, _)
MigrateLoop(file, i, table) ==
    IF i > Len(file) \/ Strip(file[i]) = <<>>
    THEN table
    ELSE LET parts == MigrateParts(Strip(file[i]))
             row == [username |-> parts[1], password_hash |-> parts[2],
                     role |-> IF Len(parts) >= 3 THEN parts[3] ELSE DefaultRole]
         IN MigrateLoop(file, i + 1,
                        IF Len(parts) >= 2 THEN InsertOrIgnore(table, row) ELSE table)

\* migrate_users: the table after the call; the number it reports is the
\* number of rows added (cur.rowcount is 1 for a row inserted, 0 for one
\* ignored).
migrate_users(file, table) ==
    IF file = <<>> THEN table
    ELSE IF StartsWithUsername(Strip(file[1])) THEN MigrateLoop(file, 2, table)
    ELSE MigrateLoop(file, 1, table)

\* SpecMigrate: migrate_users runs, once and again, on a file of up to
\* MaxFileLines lines, with or without the header, into a table that is empty
\* or holds a row from an earlier migration.
Hash1 == hash_password(Abcdef1A, "s1")
Hash2 == hash_password(Whatever1A, "s1")
Username1 == <<"u", "s", "e", "r", "n", "a", "m", "e", "1">>

FileLines ==
    { Header,
      FormatLine(User1, Hash1, RoleUser),
      User1 \o <<",">> \o Hash2,
      FormatLine(UserA1, Hash2, RoleComma),
      FormatLine(Username1, Hash1, RoleUser),
      User1,
      <<>> }

Files == UNION {[1..n -> FileLines] : n \in 0..MaxFileLines}

InitMigrate ==
    /\ usersFile \in Files
    /\ usersTable \in {<<>>,
                       <<[username |-> User1, password_hash |-> Hash2, role |-> <<"i", "t">>]>>}
    /\ failed = EmptyMap
    /\ sessions = EmptyMap
    /\ now = 0
    /\ last = NoCall
    /\ streak = [u \in Usernames |-> 0]
    /\ logins = 0
    /\ creds = EmptyMap
    /\ procs = <<>>

Migrate ==
    /\ usersTable' = migrate_users(usersFile, usersTable)
    /\ last' = Call("migrate_users", <<>>, <<>>, <<>>,
                    IF usersFile = <<>> THEN "Skipped" ELSE "Migrated", "",
                    Len(usersTable') - Len(usersTable))
    /\ UNCHANGED <<usersFile, failed, sessions, now, streak, logins, creds, procs>>

NextMigrate == Migrate

SpecMigrate == InitMigrate /\ [][NextMigrate]_vars

\* ------------------------------------------------------------ vocabulary
\* A login call for username u is the step taken.
LoginStep(u) == logins' = logins + 1 /\ last'.op = "login" /\ last'.user = u

\* The credential store resolves u to a record whose hash bcrypt can parse.
Registered(u) ==
    /\ usersFile # <<>>
    /\ FindUser(usersFile, 2, u) > 0
    /\ IsBcryptHash(Lookup(usersFile, u)[2])

\* p is the password u registered with.
CorrectPassword(u, p) == Registered(u) /\ u \in DOMAIN creds /\ creds[u].password = p

\* ------------------------------------------------------------------ C1
\* C1 (lockout threshold): once a registered user has three wrong-password
\* logins in a row, each less than 300 s after the one before, a login call made
\* less than 300 s after the third is refused as AccountLocked whatever password
\* it carries, the correct one included, and leaves the session store as it was.
C1_LockoutThreshold ==
    [][\A u \in Usernames :
          (/\ LoginStep(u)
           /\ Registered(u)
           /\ streak[u] >= 3
           /\ now - failed[u].last_time < LOCKOUT_TIME)
          => (last'.outcome = "AccountLocked" /\ sessions' = sessions)]_vars

\* The fourth call carried the correct password and was refused.
C1_Witness ==
    /\ last.op = "login"
    /\ last.outcome = "AccountLocked"
    /\ CorrectPassword(last.user, last.password)
    /\ streak[last.user] = 3
    /\ last.user \notin DOMAIN sessions

\* ------------------------------------------------------------------ C2
\* C2 (window expiry): a login call made more than 300 s after the user's third
\* (or later) recorded failure is not refused as locked, and with the correct
\* password it ends Authenticated and stores a session issued at that moment.
C2_WindowExpiry ==
    [][\A u \in Usernames :
          (/\ LoginStep(u)
           /\ u \in DOMAIN failed
           /\ failed[u].count >= LOCK_THRESHOLD
           /\ now - failed[u].last_time > LOCKOUT_TIME)
          => /\ last'.outcome # "AccountLocked"
             /\ CorrectPassword(u, last'.password) =>
                  /\ last'.outcome = "Authenticated"
                  /\ u \in DOMAIN sessions'
                  /\ sessions'[u].timestamp = now]_vars

\* A user with three recorded failures logged in after the window had passed.
C2_Witness ==
    /\ last.op = "login"
    /\ last.outcome = "Authenticated"
    /\ last.user \in DOMAIN failed
    /\ failed[last.user].count >= LOCK_THRESHOLD
    /\ now - failed[last.user].last_time > LOCKOUT_TIME
    /\ sessions[last.user].timestamp = now

\* ------------------------------------------------------------------ C3
\* C3 (reset on success): after a login that ended Authenticated, the user has
\* no stored failure count, or a count of zero.
C3_ResetOnSuccess ==
    (last.op = "login" /\ last.outcome = "Authenticated")
    => (last.user \notin DOMAIN failed \/ failed[last.user].count = 0)


\* ------------------------------------------------------------------ C7
\* C7 (wrong password): when a registered user who is not locked logs in with a
\* password that is not the registered one, the call ends InvalidCredentials,
\* never Authenticated, leaves the session store as it was, and records one
\* failure for that user alone: the count is 1 or one more than before, its
\* time is the time of the call, and the caller is told the new count.
C7_WrongPassword ==
    [][\A u \in Usernames :
          (/\ LoginStep(u)
           /\ Registered(u)
           /\ ~is_locked(failed, u, now)
           /\ ~CorrectPassword(u, last'.password))
          => /\ last'.outcome = "InvalidCredentials"
             /\ sessions' = sessions
             /\ DOMAIN failed' = DOMAIN failed \cup {u}
             /\ \A v \in DOMAIN failed \ {u} : failed'[v] = failed[v]
             /\ failed'[u].last_time = now
             /\ failed'[u].count \in
                  (IF u \in DOMAIN failed THEN {1, failed[u].count + 1} ELSE {1})
             /\ last'.attempts = failed'[u].count]_vars

\* A second wrong password by a user who holds a session.
C7_Witness ==
    /\ last.op = "login"
    /\ last.outcome = "InvalidCredentials"
    /\ last.attempts = 2
    /\ last.user \in DOMAIN sessions
    /\ failed[last.user].count = 2

\* ----------------------------------------------------------------- C10
\* C10 (unknown user): a login call for a username without a credential record
\* ends UserNotFound and changes neither the lockout state nor the session
\* store; and in every reachable state every username with a lockout entry has
\* a credential record, so a username without one is never locked.
C10_UnknownUser ==
    /\ [](\A u \in Usernames :
            ~user_exists(usersFile, u) =>
                /\ u \notin DOMAIN failed
                /\ \A t \in 0..TimeLimit : ~is_locked(failed, u, t))
    /\ [][\A u \in Usernames :
            (LoginStep(u) /\ ~user_exists(usersFile, u))
            => /\ last'.outcome = "UserNotFound"
               /\ failed' = failed
               /\ sessions' = sessions]_vars

\* An unknown username was tried while another user has recorded failures.
C10_Witness ==
    /\ last.op = "login"
    /\ last.outcome = "UserNotFound"
    /\ usersFile # <<>>
    /\ ~user_exists(usersFile, last.user)
    /\ failed # EmptyMap
    /\ last.user \notin DOMAIN failed


RecordsOf(file, u) ==
    {i \in 2..Len(file) : Unpacks(file[i]) /\ ParseLine(file[i])[1] = u}

\* A register call for username u is the step taken.
RegisterStep(u) == last'.op = "register" /\ last'.user = u /\ last' # last

\* C8 (duplicate rejection): a register call for a username that register has
\* accepted before ends AlreadyExists and leaves users.txt as it was, with
\* exactly one record for that username.
C8_DuplicateRejection ==
    [][\A u \in Usernames :
          (RegisterStep(u) /\ u \in DOMAIN creds)
          => /\ last'.outcome = "AlreadyExists"
             /\ usersFile' = usersFile
             /\ Cardinality(RecordsOf(usersFile', u)) = 1]_vars

\* ------------------------------------------------------------------ C9
\* C9 (policy gate): register stores a credential record only for a username
\* and a password that pass validate_username and validate_password.
C9_PolicyGate ==
    (last.op = "register" /\ last.outcome = "Registered")
    => (validate_username(last.user) = "" /\ validate_password(last.password) = "")

\* What does hold: the registration flow of bcript_test/main.py stops at the
\* first failing validator and stores nothing.
CheckedFlowIsGated ==
    (last.op = "register" /\ last.outcome = "Registered" /\ last.detail = "bcript_test")
    => (validate_username(last.user) = "" /\ validate_password(last.password) = "")


\* ------------------------------------------------------------------ C4
AllDone == \A i \in DOMAIN procs : procs[i].pc = "done"

\* C4 (concurrent registration): when all the concurrent callers of register
\* for one new username have returned, exactly one of them was accepted, the
\* others were rejected as already existing, and users.txt holds exactly one
\* record for the username.
C4_ConcurrentRegistration ==
    (procs # <<>> /\ AllDone)
    => /\ Cardinality({i \in DOMAIN procs : procs[i].result = "Registered"}) = 1
       /\ Cardinality({i \in DOMAIN procs : procs[i].result = "AlreadyExists"})
            = Len(procs) - 1
       /\ Cardinality(RecordsOf(usersFile, RaceUser)) = 1

\* ------------------------------------------------------------------ C5
\* C5 (no lost increments): when all the concurrent callers of
\* track_failed_attempt for one username, inside one lockout window, have
\* returned, the stored failure count is the count stored when they started
\* plus the number of callers.
C5_NoLostIncrement ==
    (procs # <<>> /\ AllDone)
    => /\ FailUser \in DOMAIN failed
       /\ failed[FailUser].count = procs[1].start + Len(procs)

\* ------------------------------------------------------------------ C11
\* The lockout state of u is active at the time of the call.
LockedNow(u) ==
    /\ u \in DOMAIN failed
    /\ failed[u].count >= LOCK_THRESHOLD
    /\ now - failed[u].last_time < LOCKOUT_TIME

\* C11 (locked login has no side effect): a login call made while the user's
\* lockout is active ends AccountLocked whatever password it carries, and
\* leaves failed_attempts.json (count and last_time), sessions.json and
\* users.txt as they were.
C11_LockedNoSideEffect ==
    [][\A u \in Usernames :
          (LoginStep(u) /\ LockedNow(u))
          => /\ last'.outcome = "AccountLocked"
             /\ failed' = failed
             /\ sessions' = sessions
             /\ usersFile' = usersFile]_vars

\* A registered user's fourth call in a row was refused, and the count is still
\* the three that locked the account.
C11_Witness ==
    /\ last.op = "login"
    /\ last.outcome = "AccountLocked"
    /\ LockedNow(last.user)
    /\ failed[last.user].count = LOCK_THRESHOLD
    /\ logins = LOCK_THRESHOLD + 1
    /\ Registered(last.user)

\* ------------------------------------------------------------------ C12
\* C12 (recordFailure): a wrong-password login for a user without a lockout
\* entry, or whose entry is 300 s old or older, stores count 1 stamped with the
\* time of the call; otherwise it stores the old count plus one stamped with
\* the time of the call; in both cases the stored count is the one reported.
C12_RecordFailure ==
    [][\A u \in Usernames :
          (LoginStep(u) /\ last'.outcome = "InvalidCredentials")
          => /\ u \in DOMAIN failed'
             /\ failed'[u].last_time = now
             /\ failed'[u].count =
                  IF u \notin DOMAIN failed \/ now - failed[u].last_time >= LOCKOUT_TIME
                  THEN 1
                  ELSE failed[u].count + 1
             /\ last'.attempts = failed'[u].count]_vars

\* ------------------------------------------------------------------ C13
\* C13 (isLocked): the lock check that opens every login call answers "locked"
\* (the call ends AccountLocked) exactly when the user has a lockout entry with
\* count >= 3 that is less than 300 s old; the check itself writes nothing:
\* users.txt never changes in a login call, failed_attempts.json only in a call
\* that records a wrong password, sessions.json only in one that authenticates.
C13_IsLockedIff ==
    [][\A u \in Usernames :
          LoginStep(u)
          => /\ (last'.outcome = "AccountLocked")
                  <=> (/\ u \in DOMAIN failed
                       /\ failed[u].count >= 3
                       /\ now - failed[u].last_time < 300)
             /\ usersFile' = usersFile
             /\ (last'.outcome # "InvalidCredentials" => failed' = failed)
             /\ (last'.outcome # "Authenticated" => sessions' = sessions)]_vars

\* A user with three recorded failures was let through exactly 300 s after the
\* third.
C13_Witness ==
    /\ last.op = "login"
    /\ last.outcome = "Authenticated"
    /\ last.user \in DOMAIN failed
    /\ failed[last.user].count >= 3
    /\ now - failed[last.user].last_time = 300

\* ------------------------------------------------------------------ C14
\* C14 (single active session): sessions.json holds one record (a token and an
\* issue time) per username that has one; a login that authenticates sets that
\* user's record to a newly issued token stamped with the time of the call, and
\* leaves the record of every other username as it was.  No other login call
\* changes the session store.
C14_SingleSession ==
    /\ [](\A u \in DOMAIN sessions :
             /\ u \in Usernames
             /\ sessions[u] \in [token : Tokens, timestamp : 0..TimeLimit])
    /\ [][\A u \in Usernames :
             LoginStep(u)
             => IF last'.outcome = "Authenticated"
                THEN /\ DOMAIN sessions' = DOMAIN sessions \cup {u}
                     /\ sessions'[u].timestamp = now
                     /\ sessions'[u].token \in Tokens
                     /\ \A v \in DOMAIN sessions \ {u} : sessions'[v] = sessions[v]
                ELSE sessions' = sessions]_vars

\* Both users hold a session; the one who logged in last holds the later one,
\* under another token than the other user's.
C14_Witness ==
    /\ last.op = "login"
    /\ last.outcome = "Authenticated"
    /\ DOMAIN sessions = SessUsernames
    /\ logins = MaxSessLogins
    /\ \A v \in SessUsernames \ {last.user} :
          /\ sessions[v].timestamp < sessions[last.user].timestamp
          /\ sessions[v].token # sessions[last.user].token
    /\ sessions[last.user].timestamp = now

\* ------------------------------------------------------------------ C15
\* C15 (corrupt stored hash): a login call for a user whose stored hash the
\* hasher cannot parse ends StorageCorruption, an outcome of its own, records
\* no failure and issues no session.
C15_CorruptHash ==
    [][\A u \in Usernames :
          (/\ LoginStep(u)
           /\ ~is_locked(failed, u, now)
           /\ usersFile # <<>>
           /\ FindUser(usersFile, 2, u) > 0
           /\ ~IsBcryptHash(Lookup(usersFile, u)[2]))
          => /\ last'.outcome = "StorageCorruption"
             /\ failed' = failed
             /\ sessions' = sessions]_vars

\* ------------------------------------------------------------------ C16
\* s holds a character of the class.
Holds(s, class) == \E i \in DOMAIN s : s[i] \in class

\* C16 (validatePassword): a password is accepted exactly when it has at least
\* 6 characters, an uppercase letter, a lowercase letter, a digit and one of
\* @#$%^&+=!; a rejection names the first rule that fails in the order length,
\* uppercase, lowercase, digit, special character, and no other.
C16_ValidatePassword ==
    last.op = "validate_password"
    => LET p == last.password
       IN /\ (last.outcome = "Ok")
               <=> (/\ Len(p) >= 6
                    /\ Holds(p, Upper) /\ Holds(p, Lower)
                    /\ Holds(p, Digit) /\ Holds(p, Special))
          /\ last.outcome \in {"Ok", "Rejected"}
          /\ (last.outcome = "Ok") <=> (last.detail = "")
          /\ (last.detail = "password:length") <=> (Len(p) < 6)
          /\ (last.detail = "password:uppercase")
               <=> (Len(p) >= 6 /\ ~Holds(p, Upper))
          /\ (last.detail = "password:lowercase")
               <=> (Len(p) >= 6 /\ Holds(p, Upper) /\ ~Holds(p, Lower))
          /\ (last.detail = "password:digit")
               <=> (Len(p) >= 6 /\ Holds(p, Upper) /\ Holds(p, Lower)
                    /\ ~Holds(p, Digit))
          /\ (last.detail = "password:special")
               <=> (Len(p) >= 6 /\ Holds(p, Upper) /\ Holds(p, Lower)
                    /\ Holds(p, Digit) /\ ~Holds(p, Special))

\* A password of six characters that fails two rules was rejected for the
\* earlier one, the missing lowercase letter.
C16_Witness ==
    /\ last.op = "validate_password"
    /\ Len(last.password) = 6
    /\ ~Holds(last.password, Lower)
    /\ ~Holds(last.password, Digit)
    /\ Holds(last.password, Upper)
    /\ last.detail = "password:lowercase"

\* ------------------------------------------------------------------ C17
\* The number of classes among the four of which s holds a character.
ClassesHeld(s) ==
    Cardinality({class \in {Upper, Lower, Digit, Special} : Holds(s, class)})

\* The examples of the strength score: "abc" is Weak, "Abcdef1" Medium and
\* "Abcdef1!" Strong.
StrengthExamples ==
    /\ check_password_strength(<<"a", "b", "c">>) = "Weak"
    /\ check_password_strength(<<"A", "b", "c", "d", "e", "f", "1">>) = "Medium"
    /\ check_password_strength(<<"A", "b", "c", "d", "e", "f", "1", "!">>) = "Strong"

\* C17 (scoreStrength): with one point for a length of at least 8 and one for
\* each of uppercase, lowercase, digit and special character, the label is Weak
\* for 0-2 points, Medium for 3-4 and Strong for 5; so a password that
\* validate_password accepts is Medium or Strong, and Strong exactly when it
\* has at least 8 characters.
C17_ScoreStrength ==
    /\ StrengthExamples
    /\ last.op = "check_password_strength"
       => LET p == last.password
              points == ClassesHeld(p) + (IF Len(p) >= 8 THEN 1 ELSE 0)
          IN /\ (last.outcome = "Weak") <=> (points \in 0..2)
             /\ (last.outcome = "Medium") <=> (points \in 3..4)
             /\ (last.outcome = "Strong") <=> (points = 5)
             /\ validate_password(p) = ""
                  => /\ last.outcome \in {"Medium", "Strong"}
                     /\ (last.outcome = "Strong") <=> (Len(p) >= 8)

\* A password of seven characters that validate_password accepts was scored
\* Medium.
C17_Witness ==
    /\ last.op = "check_password_strength"
    /\ validate_password(last.password) = ""
    /\ Len(last.password) = 7
    /\ last.outcome = "Medium"


\* ------------------------------------------------------------------ C18
\* C18 (validateUsername): a string is accepted exactly when it has at least 3
\* characters and all of them are letters, digits or "_"; the empty string, a
\* shorter string and a string with any other character, a comma or a line
\* break included, are rejected.
C18_ValidateUsername ==
    last.op = "validate_username"
    => LET u == last.user
       IN (last.outcome = "Ok")
            <=> (/\ Len(u) >= 3
                 /\ \A i \in DOMAIN u : u[i] \in Upper \cup Lower \cup Digit \cup {"_"})

\* ------------------------------------------------------------------ C19
\* C19 (sessions of different users are independent): when all the concurrent
\* callers of create_session, each for a username of its own, have returned,
\* sessions.json holds every caller's new record, and every record it held
\* before for another user is still there.
C19_IndependentSessions ==
    (procs # <<>> /\ AllDone)
    => /\ \A i \in DOMAIN procs :
             /\ procs[i].user \in DOMAIN sessions
             /\ sessions[procs[i].user].token = procs[i].token
       /\ \A u \in DOMAIN procs[1].start :
             u \in DOMAIN sessions /\ sessions[u] = procs[1].start[u]

\* ------------------------------------------------------------------ C20
\* No step changes or removes a line of users.txt.
AppendOnly ==
    [][/\ Len(usersFile') >= Len(usersFile)
       /\ \A i \in 1..Len(usersFile) : usersFile'[i] = usersFile[i]]_vars

\* C20 (credential records are immutable): in every state of a sequential run
\* of register and login calls users.txt holds at most one record per username,
\* and no step changes or removes a line that is in the file: the username,
\* the hash and the role of a record stay as they were written.
C20_ImmutableCredentials ==
    /\ [](\A u \in Usernames : Cardinality(RecordsOf(usersFile, u)) <= 1)
    /\ AppendOnly

\* ------------------------------------------------------------------ C21
\* C21 (sessions come only from verified logins): every username with a record
\* in sessions.json has a credential record in users.txt, and sessions.json
\* changes only in a login call for a user who is not locked at that time and
\* whose stored hash verifies the password given; the change is that user's
\* record alone.
C21_SessionsFromVerifiedLogins ==
    /\ [](\A u \in DOMAIN sessions : Registered(u))
    /\ [][sessions' # sessions
          => \E u \in Usernames :
                /\ LoginStep(u)
                /\ ~LockedNow(u)
                /\ Registered(u)
                /\ verify_password(last'.password, Lookup(usersFile, u)[2])
                /\ DOMAIN sessions' = DOMAIN sessions \cup {u}
                /\ \A v \in DOMAIN sessions \ {u} : sessions'[v] = sessions[v]]_vars

\* A user with two recorded failures logged in and holds a session.
C21_Witness ==
    /\ last.op = "login"
    /\ last.outcome = "Authenticated"
    /\ last.user \in DOMAIN sessions
    /\ last.user \in DOMAIN failed
    /\ failed[last.user].count = 2
    /\ sessions[last.user].timestamp = now

\* ------------------------------------------------------------------ C22
\* C22 (a lock always ends): the failure that makes the count three stamps the
\* lockout entry with its own time; while the account is locked no step, a
\* login call for it included, changes that entry; and a login call made 300 s
\* or more after the stamp is not refused as locked.  So the lock that starts
\* at the third failure ends 300 s after it, whatever was tried in between.
C22_LockEnds ==
    /\ [][\A u \in Usernames :
             (LoginStep(u) /\ last'.outcome = "InvalidCredentials" /\ last'.attempts = 3)
             => (failed'[u].count = 3 /\ failed'[u].last_time = now)]_vars
    /\ [][\A u \in Usernames :
             LockedNow(u) => (u \in DOMAIN failed' /\ failed'[u] = failed[u])]_vars
    /\ [][\A u \in Usernames :
             (/\ LoginStep(u)
              /\ u \in DOMAIN failed
              /\ now - failed[u].last_time >= 300)
             => last'.outcome # "AccountLocked"]_vars

\* A locked account was tried again and refused; now 300 s or more have passed
\* since the third failure, and the account is not locked any more.
C22_Witness ==
    /\ last.op = "login"
    /\ last.outcome = "AccountLocked"
    /\ failed[last.user].count = 3
    /\ now - failed[last.user].last_time >= 300
    /\ ~is_locked(failed, last.user, now)

\* ------------------------------------------------------------------ C23
\* C23 (no password check while locked, under concurrency): no caller of
\* login_user checks the password at a moment when the stored lockout entry of
\* the user is locked (count >= 3, less than 300 s old), and the stored count
\* of failures that follow one another within seconds never exceeds 3.
C23_NoVerifyWhileLocked ==
    procs # <<>>
    => /\ \A i \in DOMAIN procs : ~procs[i].verifiedLocked
       /\ \A u \in DOMAIN failed : failed[u].count <= 3

\* ------------------------------------------------------------------ C24
\* The credential lines of a file: the lines other than the header, with a
\* username and a hash at least.
CredentialLines(file) ==
    {i \in 1..Len(file) :
        /\ Strip(file[i]) # <<>>
        /\ ~(i = 1 /\ file[i] = Header)
        /\ Len(SplitComma(Strip(file[i]), 2)) >= 2}

\* The username, the hash and the role a credential line stands for: its
\* first, second and third comma-separated fields, the role being "user" when
\* there is no third field.
LineUsername(line) == Strip(SplitComma(Strip(line), 2)[1])
LineHash(line) == Strip(SplitComma(Strip(line), 2)[2])
LineRole(line) ==
    IF Len(SplitComma(Strip(line), Len(line))) >= 3
    THEN Strip(SplitComma(Strip(line), Len(line))[3])
    ELSE <<"u", "s", "e", "r">>

FileUsernames(file) == {LineUsername(file[i]) : i \in CredentialLines(file)}

\* The first credential line of the file for username n.
FirstLineOf(file, n) ==
    file[CHOOSE i \in CredentialLines(file) :
            /\ LineUsername(file[i]) = n
            /\ \A j \in CredentialLines(file) : LineUsername(file[j]) = n => i <= j]

TableUsernames(table) == {table[i].username : i \in DOMAIN table}

\* C24 (migrate_users is idempotent and first-wins): after a run the users
\* table holds exactly one row for each distinct username of the file, and for
\* a username that was not in the table the row carries the hash and the role
\* of the username's first line ("user" without a third field); the rows that
\* were in the table are unchanged and no other row is added; the number
\* reported is the number of rows added; a second run on the same file adds
\* nothing and reports 0.
C24_MigrateFirstWins ==
    [][last'.op = "migrate_users"
       => /\ \A n \in FileUsernames(usersFile) :
                /\ Cardinality({i \in DOMAIN usersTable' : usersTable'[i].username = n}) = 1
                /\ n \notin TableUsernames(usersTable)
                     => \E i \in DOMAIN usersTable' :
                           /\ usersTable'[i].username = n
                           /\ usersTable'[i].password_hash
                                = LineHash(FirstLineOf(usersFile, n))
                           /\ usersTable'[i].role = LineRole(FirstLineOf(usersFile, n))
          /\ \A i \in DOMAIN usersTable : usersTable'[i] = usersTable[i]
          /\ TableUsernames(usersTable')
               = TableUsernames(usersTable) \cup FileUsernames(usersFile)
          /\ last'.attempts = Len(usersTable') - Len(usersTable)
          /\ last.op = "migrate_users"
               => (usersTable' = usersTable /\ last'.attempts = 0)]_vars

=============================================================================
